---- MODULE Spec2Model ----
(***************************************************************************)
(* Gene panel parsing, validation and diff engine of PanelAppByIvan.       *)
(*                                                                         *)
(* Text is a sequence of Unicode code points, so that Python's string      *)
(* comparison (by code point), str.lower, str.strip and str.splitlines     *)
(* can be computed the way the interpreter computes them.                  *)
(***************************************************************************)
EXTENDS Naturals, Integers, Sequences, FiniteSets, TLC

VARIABLES
    content, cli, editor,
    isdir, files, pending, errors, all_warnings, exit_status, pc, printed,
    glist, sort_cli, sort_editor,
    base, head, diff_cli, diff_editor,
    ptext, idx, metadata, genes, metadata_section,
    changed, refs, rpc, todo, rlines, summary, stdout, rstatus,
    form, on_disk, panel_ok, configured, spc, calls, remote, response

validateVars == <<content, cli, editor>>
batchVars == <<isdir, files, pending, errors, all_warnings, exit_status, pc, printed>>
sortVars == <<glist, sort_cli, sort_editor>>
diffVars == <<base, head, diff_cli, diff_editor>>
parseVars == <<ptext, idx, metadata, genes, metadata_section>>
reportVars == <<changed, refs, rpc, todo, rlines, summary, stdout, rstatus>>
saveVars == <<form, on_disk, panel_ok, configured, spc, calls, remote, response>>
vars == <<validateVars, batchVars, sortVars, diffVars, parseVars, reportVars, saveVars>>

(***************************************************************************)
(* Characters                                                              *)
(***************************************************************************)
\* "\n"
NL == 10
\* "\r"
CR == 13
\* "#"
HASH == 35
\* ":"
COLON == 58
\* U+FEFF, the byte-order mark
BOM == 65279

\* str.isspace(): the code points Python treats as whitespace.
Whitespace ==
    (9..13) \cup (28..32) \cup {133, 160, 5760} \cup (8192..8202)
        \cup {8232, 8233, 8239, 8287, 12288}

\* the line boundaries of str.splitlines() ("\r\n" is handled as a pair)
LineBreaks == {10, 11, 12, 13, 28, 29, 30, 133, 8232, 8233}

IsSpace(c) == c \in Whitespace

(***************************************************************************)
(* str.lower(): the case tables of the interpreter's Unicode database      *)
(***************************************************************************)
\* the simple lowercase mappings of the Unicode database, four numbers to an
\* entry: first, last, step, offset. The code points first, first + step, ...,
\* last lower to themselves plus offset
LowerRanges ==
    <<65, 90, 1, 32,  192, 214, 1, 32,  216, 222, 1, 32,  256, 302, 2, 1,
      306, 310, 2, 1,  313, 327, 2, 1,  330, 374, 2, 1,  376, 376, 1, -121,
      377, 381, 2, 1,  385, 385, 1, 210,  386, 388, 2, 1,  390, 390, 1, 206,
      391, 391, 1, 1,  393, 394, 1, 205,  395, 395, 1, 1,  398, 398, 1, 79,
      399, 399, 1, 202,  400, 400, 1, 203,  401, 401, 1, 1,  403, 403, 1, 205,
      404, 404, 1, 207,  406, 406, 1, 211,  407, 407, 1, 209,  408, 408, 1, 1,
      412, 412, 1, 211,  413, 413, 1, 213,  415, 415, 1, 214,  416, 420, 2, 1,
      422, 422, 1, 218,  423, 423, 1, 1,  425, 425, 1, 218,  428, 428, 1, 1,
      430, 430, 1, 218,  431, 431, 1, 1,  433, 434, 1, 217,  435, 437, 2, 1,
      439, 439, 1, 219,  440, 440, 1, 1,  444, 444, 1, 1,  452, 452, 1, 2,
      453, 453, 1, 1,  455, 455, 1, 2,  456, 456, 1, 1,  458, 458, 1, 2,
      459, 475, 2, 1,  478, 494, 2, 1,  497, 497, 1, 2,  498, 500, 2, 1,
      502, 502, 1, -97,  503, 503, 1, -56,  504, 542, 2, 1,  544, 544, 1, -130,
      546, 562, 2, 1,  570, 570, 1, 10795,  571, 571, 1, 1,  573, 573, 1, -163,
      574, 574, 1, 10792,  577, 577, 1, 1,  579, 579, 1, -195,  580, 580, 1, 69,
      581, 581, 1, 71,  582, 590, 2, 1,  880, 882, 2, 1,  886, 886, 1, 1,
      895, 895, 1, 116,  902, 902, 1, 38,  904, 906, 1, 37,  908, 908, 1, 64,
      910, 911, 1, 63,  913, 929, 1, 32,  931, 939, 1, 32,  975, 975, 1, 8,
      984, 1006, 2, 1,  1012, 1012, 1, -60,  1015, 1015, 1, 1,  1017, 1017, 1, -7,
      1018, 1018, 1, 1,  1021, 1023, 1, -130,  1024, 1039, 1, 80,  1040, 1071, 1, 32,
      1120, 1152, 2, 1,  1162, 1214, 2, 1,  1216, 1216, 1, 15,  1217, 1229, 2, 1,
      1232, 1326, 2, 1,  1329, 1366, 1, 48,  4256, 4293, 1, 7264,  4295, 4295, 1, 7264,
      4301, 4301, 1, 7264,  5024, 5103, 1, 38864,  5104, 5109, 1, 8,  7312, 7354, 1, -3008,
      7357, 7359, 1, -3008,  7680, 7828, 2, 1,  7838, 7838, 1, -7615,  7840, 7934, 2, 1,
      7944, 7951, 1, -8,  7960, 7965, 1, -8,  7976, 7983, 1, -8,  7992, 7999, 1, -8,
      8008, 8013, 1, -8,  8025, 8031, 2, -8,  8040, 8047, 1, -8,  8072, 8079, 1, -8,
      8088, 8095, 1, -8,  8104, 8111, 1, -8,  8120, 8121, 1, -8,  8122, 8123, 1, -74,
      8124, 8124, 1, -9,  8136, 8139, 1, -86,  8140, 8140, 1, -9,  8152, 8153, 1, -8,
      8154, 8155, 1, -100,  8168, 8169, 1, -8,  8170, 8171, 1, -112,  8172, 8172, 1, -7,
      8184, 8185, 1, -128,  8186, 8187, 1, -126,  8188, 8188, 1, -9,  8486, 8486, 1, -7517,
      8490, 8490, 1, -8383,  8491, 8491, 1, -8262,  8498, 8498, 1, 28,  8544, 8559, 1, 16,
      8579, 8579, 1, 1,  9398, 9423, 1, 26,  11264, 11311, 1, 48,  11360, 11360, 1, 1,
      11362, 11362, 1, -10743,  11363, 11363, 1, -3814,  11364, 11364, 1, -10727,  11367, 11371, 2, 1,
      11373, 11373, 1, -10780,  11374, 11374, 1, -10749,  11375, 11375, 1, -10783,  11376, 11376, 1, -10782,
      11378, 11378, 1, 1,  11381, 11381, 1, 1,  11390, 11391, 1, -10815,  11392, 11490, 2, 1,
      11499, 11501, 2, 1,  11506, 11506, 1, 1,  42560, 42604, 2, 1,  42624, 42650, 2, 1,
      42786, 42798, 2, 1,  42802, 42862, 2, 1,  42873, 42875, 2, 1,  42877, 42877, 1, -35332,
      42878, 42886, 2, 1,  42891, 42891, 1, 1,  42893, 42893, 1, -42280,  42896, 42898, 2, 1,
      42902, 42920, 2, 1,  42922, 42922, 1, -42308,  42923, 42923, 1, -42319,  42924, 42924, 1, -42315,
      42925, 42925, 1, -42305,  42926, 42926, 1, -42308,  42928, 42928, 1, -42258,  42929, 42929, 1, -42282,
      42930, 42930, 1, -42261,  42931, 42931, 1, 928,  42932, 42946, 2, 1,  42948, 42948, 1, -48,
      42949, 42949, 1, -42307,  42950, 42950, 1, -35384,  42951, 42953, 2, 1,  42960, 42960, 1, 1,
      42966, 42968, 2, 1,  42997, 42997, 1, 1,  65313, 65338, 1, 32,  66560, 66599, 1, 40,
      66736, 66771, 1, 40,  66928, 66938, 1, 39,  66940, 66954, 1, 39,  66956, 66962, 1, 39,
      66964, 66965, 1, 39,  68736, 68786, 1, 64,  71840, 71871, 1, 32,  93760, 93791, 1, 32,
      125184, 125217, 1, 34>>

\* the cased code points that are not case-ignorable, two numbers to an entry:
\* first, last
CasedRanges ==
    <<65, 90,  97, 122,  170, 170,  181, 181,  186, 186,  192, 214,
      216, 246,  248, 442,  444, 447,  452, 659,  661, 687,  880, 883,
      886, 887,  891, 893,  895, 895,  902, 902,  904, 906,  908, 908,
      910, 929,  931, 1013,  1015, 1153,  1162, 1327,  1329, 1366,  1376, 1416,
      4256, 4293,  4295, 4295,  4301, 4301,  4304, 4346,  4349, 4351,  5024, 5109,
      5112, 5117,  7296, 7304,  7312, 7354,  7357, 7359,  7424, 7467,  7531, 7543,
      7545, 7578,  7680, 7957,  7960, 7965,  7968, 8005,  8008, 8013,  8016, 8023,
      8025, 8025,  8027, 8027,  8029, 8029,  8031, 8061,  8064, 8116,  8118, 8124,
      8126, 8126,  8130, 8132,  8134, 8140,  8144, 8147,  8150, 8155,  8160, 8172,
      8178, 8180,  8182, 8188,  8450, 8450,  8455, 8455,  8458, 8467,  8469, 8469,
      8473, 8477,  8484, 8484,  8486, 8486,  8488, 8488,  8490, 8493,  8495, 8500,
      8505, 8505,  8508, 8511,  8517, 8521,  8526, 8526,  8544, 8575,  8579, 8580,
      9398, 9449,  11264, 11387,  11390, 11492,  11499, 11502,  11506, 11507,  11520, 11557,
      11559, 11559,  11565, 11565,  42560, 42605,  42624, 42651,  42786, 42863,  42865, 42887,
      42891, 42894,  42896, 42954,  42960, 42961,  42963, 42963,  42965, 42969,  42997, 42998,
      43002, 43002,  43824, 43866,  43872, 43880,  43888, 43967,  64256, 64262,  64275, 64279,
      65313, 65338,  65345, 65370,  66560, 66639,  66736, 66771,  66776, 66811,  66928, 66938,
      66940, 66954,  66956, 66962,  66964, 66965,  66967, 66977,  66979, 66993,  66995, 67001,
      67003, 67004,  68736, 68786,  68800, 68850,  71840, 71903,  93760, 93823,  119808, 119892,
      119894, 119964,  119966, 119967,  119970, 119970,  119973, 119974,  119977, 119980,  119982, 119993,
      119995, 119995,  119997, 120003,  120005, 120069,  120071, 120074,  120077, 120084,  120086, 120092,
      120094, 120121,  120123, 120126,  120128, 120132,  120134, 120134,  120138, 120144,  120146, 120485,
      120488, 120512,  120514, 120538,  120540, 120570,  120572, 120596,  120598, 120628,  120630, 120654,
      120656, 120686,  120688, 120712,  120714, 120744,  120746, 120770,  120772, 120779,  122624, 122633,
      122635, 122654,  125184, 125251,  127280, 127305,  127312, 127337,  127344, 127369>>

\* the case-ignorable code points, two numbers to an entry: first, last
CaseIgnorableRanges ==
    <<39, 39,  46, 46,  58, 58,  94, 94,  96, 96,  168, 168,
      173, 173,  175, 175,  180, 180,  183, 184,  688, 879,  884, 885,
      890, 890,  900, 901,  903, 903,  1155, 1161,  1369, 1369,  1375, 1375,
      1425, 1469,  1471, 1471,  1473, 1474,  1476, 1477,  1479, 1479,  1524, 1524,
      1536, 1541,  1552, 1562,  1564, 1564,  1600, 1600,  1611, 1631,  1648, 1648,
      1750, 1757,  1759, 1768,  1770, 1773,  1807, 1807,  1809, 1809,  1840, 1866,
      1958, 1968,  2027, 2037,  2042, 2042,  2045, 2045,  2070, 2093,  2137, 2139,
      2184, 2184,  2192, 2193,  2200, 2207,  2249, 2306,  2362, 2362,  2364, 2364,
      2369, 2376,  2381, 2381,  2385, 2391,  2402, 2403,  2417, 2417,  2433, 2433,
      2492, 2492,  2497, 2500,  2509, 2509,  2530, 2531,  2558, 2558,  2561, 2562,
      2620, 2620,  2625, 2626,  2631, 2632,  2635, 2637,  2641, 2641,  2672, 2673,
      2677, 2677,  2689, 2690,  2748, 2748,  2753, 2757,  2759, 2760,  2765, 2765,
      2786, 2787,  2810, 2815,  2817, 2817,  2876, 2876,  2879, 2879,  2881, 2884,
      2893, 2893,  2901, 2902,  2914, 2915,  2946, 2946,  3008, 3008,  3021, 3021,
      3072, 3072,  3076, 3076,  3132, 3132,  3134, 3136,  3142, 3144,  3146, 3149,
      3157, 3158,  3170, 3171,  3201, 3201,  3260, 3260,  3263, 3263,  3270, 3270,
      3276, 3277,  3298, 3299,  3328, 3329,  3387, 3388,  3393, 3396,  3405, 3405,
      3426, 3427,  3457, 3457,  3530, 3530,  3538, 3540,  3542, 3542,  3633, 3633,
      3636, 3642,  3654, 3662,  3761, 3761,  3764, 3772,  3782, 3782,  3784, 3789,
      3864, 3865,  3893, 3893,  3895, 3895,  3897, 3897,  3953, 3966,  3968, 3972,
      3974, 3975,  3981, 3991,  3993, 4028,  4038, 4038,  4141, 4144,  4146, 4151,
      4153, 4154,  4157, 4158,  4184, 4185,  4190, 4192,  4209, 4212,  4226, 4226,
      4229, 4230,  4237, 4237,  4253, 4253,  4348, 4348,  4957, 4959,  5906, 5908,
      5938, 5939,  5970, 5971,  6002, 6003,  6068, 6069,  6071, 6077,  6086, 6086,
      6089, 6099,  6103, 6103,  6109, 6109,  6155, 6159,  6211, 6211,  6277, 6278,
      6313, 6313,  6432, 6434,  6439, 6440,  6450, 6450,  6457, 6459,  6679, 6680,
      6683, 6683,  6742, 6742,  6744, 6750,  6752, 6752,  6754, 6754,  6757, 6764,
      6771, 6780,  6783, 6783,  6823, 6823,  6832, 6862,  6912, 6915,  6964, 6964,
      6966, 6970,  6972, 6972,  6978, 6978,  7019, 7027,  7040, 7041,  7074, 7077,
      7080, 7081,  7083, 7085,  7142, 7142,  7144, 7145,  7149, 7149,  7151, 7153,
      7212, 7219,  7222, 7223,  7288, 7293,  7376, 7378,  7380, 7392,  7394, 7400,
      7405, 7405,  7412, 7412,  7416, 7417,  7468, 7530,  7544, 7544,  7579, 7679,
      8125, 8125,  8127, 8129,  8141, 8143,  8157, 8159,  8173, 8175,  8189, 8190,
      8203, 8207,  8216, 8217,  8228, 8228,  8231, 8231,  8234, 8238,  8288, 8292,
      8294, 8303,  8305, 8305,  8319, 8319,  8336, 8348,  8400, 8432,  11388, 11389,
      11503, 11505,  11631, 11631,  11647, 11647,  11744, 11775,  11823, 11823,  12293, 12293,
      12330, 12333,  12337, 12341,  12347, 12347,  12441, 12446,  12540, 12542,  40981, 40981,
      42232, 42237,  42508, 42508,  42607, 42610,  42612, 42621,  42623, 42623,  42652, 42655,
      42736, 42737,  42752, 42785,  42864, 42864,  42888, 42890,  42994, 42996,  43000, 43001,
      43010, 43010,  43014, 43014,  43019, 43019,  43045, 43046,  43052, 43052,  43204, 43205,
      43232, 43249,  43263, 43263,  43302, 43309,  43335, 43345,  43392, 43394,  43443, 43443,
      43446, 43449,  43452, 43453,  43471, 43471,  43493, 43494,  43561, 43566,  43569, 43570,
      43573, 43574,  43587, 43587,  43596, 43596,  43632, 43632,  43644, 43644,  43696, 43696,
      43698, 43700,  43703, 43704,  43710, 43711,  43713, 43713,  43741, 43741,  43756, 43757,
      43763, 43764,  43766, 43766,  43867, 43871,  43881, 43883,  44005, 44005,  44008, 44008,
      44013, 44013,  64286, 64286,  64434, 64450,  65024, 65039,  65043, 65043,  65056, 65071,
      65106, 65106,  65109, 65109,  65279, 65279,  65287, 65287,  65294, 65294,  65306, 65306,
      65342, 65342,  65344, 65344,  65392, 65392,  65438, 65439,  65507, 65507,  65529, 65531,
      66045, 66045,  66272, 66272,  66422, 66426,  67456, 67461,  67463, 67504,  67506, 67514,
      68097, 68099,  68101, 68102,  68108, 68111,  68152, 68154,  68159, 68159,  68325, 68326,
      68900, 68903,  69291, 69292,  69446, 69456,  69506, 69509,  69633, 69633,  69688, 69702,
      69744, 69744,  69747, 69748,  69759, 69761,  69811, 69814,  69817, 69818,  69821, 69821,
      69826, 69826,  69837, 69837,  69888, 69890,  69927, 69931,  69933, 69940,  70003, 70003,
      70016, 70017,  70070, 70078,  70089, 70092,  70095, 70095,  70191, 70193,  70196, 70196,
      70198, 70199,  70206, 70206,  70367, 70367,  70371, 70378,  70400, 70401,  70459, 70460,
      70464, 70464,  70502, 70508,  70512, 70516,  70712, 70719,  70722, 70724,  70726, 70726,
      70750, 70750,  70835, 70840,  70842, 70842,  70847, 70848,  70850, 70851,  71090, 71093,
      71100, 71101,  71103, 71104,  71132, 71133,  71219, 71226,  71229, 71229,  71231, 71232,
      71339, 71339,  71341, 71341,  71344, 71349,  71351, 71351,  71453, 71455,  71458, 71461,
      71463, 71467,  71727, 71735,  71737, 71738,  71995, 71996,  71998, 71998,  72003, 72003,
      72148, 72151,  72154, 72155,  72160, 72160,  72193, 72202,  72243, 72248,  72251, 72254,
      72263, 72263,  72273, 72278,  72281, 72283,  72330, 72342,  72344, 72345,  72752, 72758,
      72760, 72765,  72767, 72767,  72850, 72871,  72874, 72880,  72882, 72883,  72885, 72886,
      73009, 73014,  73018, 73018,  73020, 73021,  73023, 73029,  73031, 73031,  73104, 73105,
      73109, 73109,  73111, 73111,  73459, 73460,  78896, 78904,  92912, 92916,  92976, 92982,
      92992, 92995,  94031, 94031,  94095, 94111,  94176, 94177,  94179, 94180,  110576, 110579,
      110581, 110587,  110589, 110590,  113821, 113822,  113824, 113827,  118528, 118573,  118576, 118598,
      119143, 119145,  119155, 119170,  119173, 119179,  119210, 119213,  119362, 119364,  121344, 121398,
      121403, 121452,  121461, 121461,  121476, 121476,  121499, 121503,  121505, 121519,  122880, 122886,
      122888, 122904,  122907, 122913,  122915, 122916,  122918, 122922,  123184, 123197,  123566, 123566,
      123628, 123631,  125136, 125142,  125252, 125259,  127995, 127999,  917505, 917505,  917536, 917631,
      917760, 917999>>

RECURSIVE EntryFor(_, _, _, _, _)
\* the entry of the table rs whose first..last holds c, or 0 when there is none:
\* a binary search among the entries lo..hi of a table of w numbers to an entry,
\* whose entries are ascending and apart
EntryFor(c, rs, w, lo, hi) ==
    IF lo > hi THEN 0
    ELSE LET mid == (lo + hi) \div 2 IN
         IF c < rs[w * (mid - 1) + 1] THEN EntryFor(c, rs, w, lo, mid - 1)
         ELSE IF c > rs[w * (mid - 1) + 2] THEN EntryFor(c, rs, w, mid + 1, hi)
         ELSE mid

\* c lies in one of the entries first, last of rs
InRanges(c, rs) == EntryFor(c, rs, 2, 1, Len(rs) \div 2) # 0

\* tested on a code point that is not case-ignorable
IsCased(c) == InRanges(c, CasedRanges)

IsCaseIgnorable(c) == InRanges(c, CaseIgnorableRanges)

\* str.lower() of the one-character string c: a string of one code point, or of
\* two for U+0130
LowerChar(c) ==
    IF c < 128 THEN <<IF c >= 65 /\ c <= 90 THEN c + 32 ELSE c>>
    ELSE IF c = 304 THEN <<105, 775>>
    ELSE LET i == EntryFor(c, LowerRanges, 4, 1, Len(LowerRanges) \div 4)
         IN  IF i = 0 \/ (c - LowerRanges[4 * i - 3]) % LowerRanges[4 * i - 1] # 0
             THEN <<c>>
             ELSE <<c + LowerRanges[4 * i]>>

\* the capital sigma at s[i] ends a word: the nearest code point before it that is
\* not case-ignorable is cased, and the nearest such code point after it, if any,
\* is not
FinalSigma(s, i) ==
    LET before == {j \in 1..(i - 1) : ~IsCaseIgnorable(s[j])}
        after == {j \in (i + 1)..Len(s) : ~IsCaseIgnorable(s[j])}
    IN  /\ before # {}
        /\ IsCased(s[CHOOSE j \in before : \A k \in before : k <= j])
        /\ after # {} => ~IsCased(s[CHOOSE j \in after : \A k \in after : j <= k])

\* what s[i] lowers to inside s: U+03A3 lowers to U+03C2 at the end of a word and
\* to U+03C3 elsewhere
LowerAt(s, i) ==
    IF s[i] = 931 THEN <<IF FinalSigma(s, i) THEN 962 ELSE 963>> ELSE LowerChar(s[i])

RECURSIVE LowerFrom(_, _)
LowerFrom(s, i) == IF i > Len(s) THEN <<>> ELSE LowerAt(s, i) \o LowerFrom(s, i + 1)

\* s.lower()
Lower(s) == LowerFrom(s, 1)

(***************************************************************************)
(* Python string operations                                                *)
(***************************************************************************)
RECURSIVE LStripSet(_, _)
\* s.lstrip(chars)
LStripSet(s, cs) ==
    IF s # <<>> /\ Head(s) \in cs THEN LStripSet(Tail(s), cs) ELSE s

RECURSIVE RStripSet(_, _)
\* s.rstrip(chars)
RStripSet(s, cs) ==
    IF s # <<>> /\ s[Len(s)] \in cs
    THEN RStripSet(SubSeq(s, 1, Len(s) - 1), cs)
    ELSE s

\* s.strip()
Strip(s) == RStripSet(LStripSet(s, Whitespace), Whitespace)

\* s.startswith(c) for a one-character prefix
StartsWith(s, c) == s # <<>> /\ s[1] = c

\* s.endswith(c) for a one-character suffix
EndsWith(s, c) == s # <<>> /\ s[Len(s)] = c

\* c in s
Contains(s, c) == \E k \in 1..Len(s) : s[k] = c

RECURSIVE StrLess(_, _)
\* a < b on str: lexicographic by code point
StrLess(a, b) ==
    IF b = <<>> THEN FALSE
    ELSE IF a = <<>> THEN TRUE
    ELSE IF a[1] # b[1] THEN a[1] < b[1]
    ELSE StrLess(Tail(a), Tail(b))

RECURSIVE SplitLinesAt(_, _, _, _)
SplitLinesAt(s, i, cur, out) ==
    IF i > Len(s) THEN (IF cur = <<>> THEN out ELSE Append(out, cur))
    ELSE IF s[i] = CR /\ i < Len(s) /\ s[i + 1] = NL
         THEN SplitLinesAt(s, i + 2, <<>>, Append(out, cur))
    ELSE IF s[i] \in LineBreaks
         THEN SplitLinesAt(s, i + 1, <<>>, Append(out, cur))
    ELSE SplitLinesAt(s, i + 1, Append(cur, s[i]), out)

\* s.splitlines(): the lines without their line boundaries
SplitLines(s) == SplitLinesAt(s, 1, <<>>, <<>>)

RECURSIVE InsertSorted(_, _)
\* x placed after every element that does not compare greater than it
InsertSorted(x, s) ==
    IF s = <<>> THEN <<x>>
    ELSE IF StrLess(x, Head(s)) THEN <<x>> \o s
    ELSE <<Head(s)>> \o InsertSorted(x, Tail(s))

RECURSIVE Sorted(_)
\* sorted(list): a stable ascending sort by code point order
Sorted(s) ==
    IF s = <<>> THEN <<>>
    ELSE InsertSorted(s[Len(s)], Sorted(SubSeq(s, 1, Len(s) - 1)))

Range(s) == {s[k] : k \in 1..Len(s)}

(***************************************************************************)
(* scripts/validate_panels.py                                              *)
(***************************************************************************)
\* ValidationError(message): what the message cites
Err(file, kind, line, text, pos) ==
    [file |-> file, kind |-> kind, line |-> line, text |-> text, pos |-> pos]

NoErr == Err("", "none", 0, <<>>, 0)

\* a warning line: the file, the line number, the gene and the earlier gene
Warn(file, line, gene, existing) ==
    [file |-> file, line |-> line, gene |-> gene, existing |-> existing]

\* the utf-8-sig decoder drops one byte-order mark at the start of the file
DecodeUtf8Sig(raw) == IF StartsWith(raw, BOM) THEN Tail(raw) ELSE raw

RECURSIVE TranslateNewlines(_)
\* text mode with universal newlines: "\r\n" and "\r" are read as "\n"
TranslateNewlines(s) ==
    IF s = <<>> THEN <<>>
    ELSE IF s[1] = CR
         THEN IF Len(s) > 1 /\ s[2] = NL
              THEN <<NL>> \o TranslateNewlines(SubSeq(s, 3, Len(s)))
              ELSE <<NL>> \o TranslateNewlines(Tail(s))
    ELSE <<s[1]>> \o TranslateNewlines(Tail(s))

\* f.read() of a file opened with encoding="utf-8-sig"
ReadText(raw) == TranslateNewlines(DecodeUtf8Sig(raw))

RECURSIVE FileLinesAt(_, _, _, _)
FileLinesAt(s, i, cur, out) ==
    IF i > Len(s) THEN (IF cur = <<>> THEN out ELSE Append(out, cur))
    ELSE IF s[i] = NL THEN FileLinesAt(s, i + 1, <<>>, Append(out, Append(cur, NL)))
    ELSE FileLinesAt(s, i + 1, Append(cur, s[i]), out)

\* for line in f: the lines of the text, each with its "\n"
FileLines(s) == FileLinesAt(s, 1, <<>>, <<>>)

\* raw_content and not raw_content.endswith("\n")
MissingNewline(text) == text # <<>> /\ ~EndsWith(text, NL)

\* only the space character looked for
HasWhitespace_spaceOnly(line) == \E k \in 1..Len(line) : line[k] = 32

\* any(ch.isspace() for ch in line)
HasWhitespace(line) == \E k \in 1..Len(line) : IsSpace(line[k])

\* the scan state of read_panel: its two lists, and the exception once raised
ScanStart == [raised |-> FALSE, error |-> NoErr, genes |-> <<>>, warnings |-> <<>>]

Raise(st, e) == [st EXCEPT !.raised = TRUE, !.error = e]

RECURSIVE DupScan_firstMatchOnly(_, _, _, _, _)
\* the scan left at the first earlier gene that matches case-insensitively
DupScan_firstMatchOnly(st, filepath, line_num, line, k) ==
    IF k > Len(st.genes) THEN [st EXCEPT !.genes = Append(@, line)]
    ELSE LET existing == st.genes[k] IN
         IF existing = line
         THEN Raise(st, Err(filepath, "duplicate", line_num, line, 0))
         ELSE IF Lower(existing) = Lower(line)
         THEN [st EXCEPT !.warnings = Append(@, Warn(filepath, line_num, line, existing)),
                         !.genes = Append(@, line)]
         ELSE DupScan_firstMatchOnly(st, filepath, line_num, line, k + 1)

RECURSIVE DupScan(_, _, _, _, _)
\* for existing in genes: ... ; genes.append(line)
DupScan(st, filepath, line_num, line, k) ==
    IF k > Len(st.genes) THEN [st EXCEPT !.genes = Append(@, line)]
    ELSE LET existing == st.genes[k] IN
         IF existing = line
         THEN Raise(st, Err(filepath, "duplicate", line_num, line, 0))
         ELSE IF Lower(existing) = Lower(line)
         THEN DupScan([st EXCEPT !.warnings =
                          Append(@, Warn(filepath, line_num, line, existing))],
                      filepath, line_num, line, k + 1)
         ELSE DupScan(st, filepath, line_num, line, k + 1)

\* one iteration of "for line_num, line in enumerate(f, start=1)"
ReadPanelLine(st, filepath, line_num, rawline) ==
    LET line == Strip(RStripSet(rawline, {NL})) IN
    IF line = <<>> \/ StartsWith(line, HASH) THEN st
    ELSE IF HasWhitespace(line)
         THEN Raise(st, Err(filepath, "whitespace", line_num, line, 0))
    ELSE DupScan(st, filepath, line_num, line, 1)

RECURSIVE ReadPanelLoop(_, _, _, _)
ReadPanelLoop(st, filepath, flines, n) ==
    IF st.raised \/ n > Len(flines) THEN st
    ELSE ReadPanelLoop(ReadPanelLine(st, filepath, n, flines[n]), filepath, flines, n + 1)

\* in a file's content, a byte sequence that is not UTF-8
INVALID == -1

\* what stands for the content of a directory entry that is itself a directory
DirectoryEntry == <<-2>>

\* open(filepath, "r") raises IsADirectoryError on a directory
IsDirectory(raw) == raw = DirectoryEntry

\* f.read() raises UnicodeDecodeError unless the whole file is UTF-8
Decodable(raw) == \A k \in 1..Len(raw) : raw[k] >= 0

\* the file's text can be had: neither open() nor f.read() raises
Readable(raw) == ~IsDirectory(raw) /\ Decodable(raw)

\* isinstance(e, ValidationError): the exceptions read_panel and validate_sorted
\* raise themselves, as opposed to those of open() and f.read()
IsValidationError(e) == e.kind \in {"newline", "whitespace", "duplicate", "unsorted"}

\* read_panel(filepath) on a file holding raw: (genes, warnings), or the exception
\* raised, with which the two local lists are lost
read_panel(filepath, raw) ==
    IF IsDirectory(raw)
    THEN Raise(ScanStart, Err(filepath, "IsADirectoryError", 0, <<>>, 0))
    ELSE IF ~Decodable(raw)
    THEN Raise(ScanStart, Err(filepath, "UnicodeDecodeError", 0, <<>>, 0))
    ELSE LET raw_content == ReadText(raw) IN
         IF MissingNewline(raw_content)
         THEN Raise(ScanStart, Err(filepath, "newline", 0, <<>>, 0))
         ELSE LET st == ReadPanelLoop(ScanStart, filepath, FileLines(raw_content), 1) IN
              IF st.raised THEN Raise(ScanStart, st.error) ELSE st

\* the comparison turned around
OutOfOrder_reversed(key, prev) == StrLess(prev, key)

\* equal keys rejected too
OutOfOrder_le(key, prev) == ~StrLess(prev, key)

\* key < prev
OutOfOrder(key, prev) == StrLess(key, prev)

RECURSIVE SortedLoop(_, _, _)
SortedLoop(gs, filepath, k) ==
    IF k > Len(gs) THEN NoErr
    ELSE IF k > 1 /\ OutOfOrder(Lower(gs[k]), Lower(gs[k - 1]))
         THEN Err(filepath, "unsorted", 0, gs[k], k)
    ELSE SortedLoop(gs, filepath, k + 1)

\* validate_sorted(genes, filepath): NoErr, or the exception raised
validate_sorted(gs, filepath) == SortedLoop(gs, filepath, 1)

\* the try block of main for one file: what the file adds to errors and
\* all_warnings, and the exception that the except clause does not catch, if any
ValidateFile(path, raw) ==
    LET r == read_panel(path, raw) IN
    IF r.raised
    THEN IF IsValidationError(r.error)
         THEN [errors |-> <<r.error>>, warnings |-> <<>>, uncaught |-> NoErr]
         ELSE [errors |-> <<>>, warnings |-> <<>>, uncaught |-> r.error]
    ELSE LET e == validate_sorted(r.genes, path) IN
         [errors |-> IF e = NoErr THEN <<>> ELSE <<e>>, warnings |-> r.warnings,
          uncaught |-> NoErr]

\* ".txt"
TxtSuffix == <<46, 116, 120, 116>>

\* filename.endswith(".txt")
IsTxt(filename) ==
    /\ Len(filename) >= Len(TxtSuffix)
    /\ SubSeq(filename, Len(filename) - Len(TxtSuffix) + 1, Len(filename)) = TxtSuffix

\* try: ... except ValidationError as e: errors.append(str(e)); any other
\* exception is not caught and leaves main
TryFile(errs, warns, path, raw) ==
    LET r == ValidateFile(path, raw) IN
    [errors |-> errs \o r.errors, all_warnings |-> warns \o r.warnings,
     uncaught |-> r.uncaught]

\* warnings made to fail the run as well
ExitStatus_warningsFail(errs, warns) == IF errs # <<>> \/ warns # <<>> THEN 1 ELSE 0

\* if errors: sys.exit(1); otherwise the script ends normally
ExitStatus(errs, warns) == IF errs # <<>> THEN 1 ELSE 0

\* what main has written: the warning lines and the error lines on the standard
\* error stream, and the one other message, if any
Output(warns, errs, note) == [warnings |-> warns, errors |-> errs, note |-> note]

NoOutput == Output(<<>>, <<>>, "")

\* the three loops and the closing message at the end of main
FinalOutput(errs, warns) ==
    Output(warns, errs, IF errs # <<>> THEN "" ELSE "All panels validated successfully.")

(***************************************************************************)
(* panel_editor_app/app.py                                                 *)
(***************************************************************************)
\* the message validate_content returns: what it cites
Msg(kind, line, text, other) ==
    [kind |-> kind, line |-> line, text |-> text, other |-> other]

\* None
NoMsg == Msg("none", 0, <<>>, <<>>)

\* for s in seen: if s.lower() == lower: return ...   (the first match, if any)
FirstCaseMatch(seen, stripped) ==
    LET hits == {k \in 1..Len(seen) : Lower(seen[k]) = Lower(stripped)} IN
    IF hits = {} THEN 0 ELSE CHOOSE k \in hits : \A j \in hits : k <= j

\* keys != sorted(keys)
KeysUnsorted(seen) == LET keys == [k \in 1..Len(seen) |-> Lower(seen[k])] IN keys # Sorted(keys)

RECURSIVE ContentLoop(_, _, _)
ContentLoop(lines, i, seen) ==
    IF i > Len(lines)
    THEN (IF KeysUnsorted(seen) THEN Msg("unsorted", 0, <<>>, <<>>) ELSE NoMsg)
    ELSE LET stripped == Strip(lines[i]) IN
         IF stripped = <<>> \/ StartsWith(stripped, HASH) THEN ContentLoop(lines, i + 1, seen)
         ELSE IF HasWhitespace(stripped) THEN Msg("whitespace", i, stripped, <<>>)
         ELSE IF stripped \in Range(seen) THEN Msg("duplicate", i, stripped, <<>>)
         ELSE IF FirstCaseMatch(seen, stripped) # 0
              THEN Msg("case_duplicate", i, stripped, seen[FirstCaseMatch(seen, stripped)])
         ELSE ContentLoop(lines, i + 1, Append(seen, stripped))

\* validate_content(content): the message, or NoMsg for None
validate_content(text) ==
    IF MissingNewline(text) THEN Msg("newline", 0, <<>>, <<>>)
    ELSE ContentLoop(SplitLines(text), 1, <<>>)

RECURSIVE GeneLines(_, _)
\* the loop shared by parse_genes and read_genes_from_blob: the stripped lines that
\* are neither empty nor comments, in order
GeneLines(lines, i) ==
    IF i > Len(lines) THEN <<>>
    ELSE LET line == Strip(lines[i]) IN
         IF line = <<>> \/ StartsWith(line, HASH) THEN GeneLines(lines, i + 1)
         ELSE <<line>> \o GeneLines(lines, i + 1)

\* parse_genes(content)
parse_genes(text) == GeneLines(SplitLines(text), 1)

RECURSIVE Enumerations(_)
\* the orders in which a set may be iterated
Enumerations(S) ==
    IF S = {} THEN {<<>>}
    ELSE UNION {{<<x>> \o rest : rest \in Enumerations(S \ {x})} : x \in S}

\* the elements of S as an iteration in the order iter meets them
IterOf(S, iter) == SelectSeq(iter, LAMBDA x : x \in S)

\* added taken from the wrong side
DiffLists_swapped(orig_set, new_set, iter_added, iter_removed) ==
    [added |-> Sorted(IterOf(orig_set \ new_set, iter_removed)),
     removed |-> Sorted(IterOf(new_set \ orig_set, iter_added))]

\* sorted(new_set - orig_set) and sorted(orig_set - new_set), the two differences
\* being iterated in the orders iter_added and iter_removed
DiffLists(orig_set, new_set, iter_added, iter_removed) ==
    [added |-> Sorted(IterOf(new_set \ orig_set, iter_added)),
     removed |-> Sorted(IterOf(orig_set \ new_set, iter_removed))]

\* diff_genes(original, updated) of panel_editor_app/app.py
diff_genes(original, updated, iter_added, iter_removed) ==
    DiffLists(Range(parse_genes(original)), Range(parse_genes(updated)), iter_added, iter_removed)

(***************************************************************************)
(* scripts/panel_diff.py                                                   *)
(***************************************************************************)
\* read_genes_from_blob(ref, path): git show fails when the file does not exist at
\* the ref, and the set is then empty
read_genes_from_blob(blob) ==
    IF ~blob.exists THEN {}
    ELSE Range(GeneLines(SplitLines(blob.text), 1))

\* "## ", "Added: ", "Removed: " and ", "
HeaderPrefix == <<35, 35, 32>>
AddedPrefix == <<65, 100, 100, 101, 100, 58, 32>>
RemovedPrefix == <<82, 101, 109, 111, 118, 101, 100, 58, 32>>
CommaSpace == <<44, 32>>
\* "No gene changes detected."
NoChangeMessage ==
    <<78, 111, 32, 103, 101, 110, 101, 32, 99, 104, 97, 110, 103, 101, 115, 32, 100, 101, 116, 101, 99, 116, 101, 100, 46>>

RECURSIVE JoinWith(_, _)
\* sep.join(ls)
JoinWith(sep, ls) ==
    IF ls = <<>> THEN <<>>
    ELSE IF Len(ls) = 1 THEN ls[1]
    ELSE ls[1] \o sep \o JoinWith(sep, Tail(ls))

\* list_changed_panel_files: the lines of git diff --name-only that end in ".txt"
list_changed_panel_files(output) == SelectSeq(SplitLines(output), IsTxt)

\* a header is written for a file without gene changes too
FileSection_always(file, added, removed) ==
    <<HeaderPrefix \o file>>
    \o (IF added # <<>> THEN <<AddedPrefix \o JoinWith(CommaSpace, added)>> ELSE <<>>)
    \o (IF removed # <<>> THEN <<RemovedPrefix \o JoinWith(CommaSpace, removed)>> ELSE <<>>)
    \o << <<>> >>

\* the removed genes under "Added" and the added genes under "Removed"
FileSection_swapped(file, added, removed) ==
    IF added = <<>> /\ removed = <<>> THEN <<>>
    ELSE <<HeaderPrefix \o file>>
         \o (IF removed # <<>> THEN <<AddedPrefix \o JoinWith(CommaSpace, removed)>> ELSE <<>>)
         \o (IF added # <<>> THEN <<RemovedPrefix \o JoinWith(CommaSpace, added)>> ELSE <<>>)
         \o << <<>> >>

\* what generate_diff appends to lines for one file: nothing when both lists are
\* empty, else the header, the lists that are not empty, and an empty line
FileSection(file, added, removed) ==
    IF added = <<>> /\ removed = <<>> THEN <<>>
    ELSE <<HeaderPrefix \o file>>
         \o (IF added # <<>> THEN <<AddedPrefix \o JoinWith(CommaSpace, added)>> ELSE <<>>)
         \o (IF removed # <<>> THEN <<RemovedPrefix \o JoinWith(CommaSpace, removed)>> ELSE <<>>)
         \o << <<>> >>

\* "\n".join(lines).strip() + "\n" if lines else ""
Summary(ls) == IF ls = <<>> THEN <<>> ELSE Strip(JoinWith(<<NL>>, ls)) \o <<NL>>

\* the summary is printed as it is, empty or not
PrintSummary_asIs(text) == text \o <<NL>>

\* main: print(summary) if summary, else print("No gene changes detected.")
PrintSummary(text) == IF text # <<>> THEN text \o <<NL>> ELSE NoChangeMessage \o <<NL>>

(***************************************************************************)
(* app.py                                                                  *)
(***************************************************************************)
\* s.split(":", 1) of a string that holds a colon
FirstColon(s) == CHOOSE k \in 1..Len(s) : s[k] = COLON /\ \A j \in 1..(k - 1) : s[j] # COLON

RECURSIVE DictSet(_, _, _)
\* metadata[key] = value on a dict, kept as its items in insertion order
DictSet(md, key, value) ==
    IF md = <<>> THEN << <<key, value>> >>
    ELSE IF md[1][1] = key THEN << <<key, value>> >> \o Tail(md)
    ELSE <<md[1]>> \o DictSet(Tail(md), key, value)

ParseStart == [metadata |-> <<>>, genes |-> <<>>, metadata_section |-> TRUE]

\* a gene line that leaves the metadata section open
ParseLine_geneKeepsSection(st, raw_line) ==
    LET stripped == Strip(LStripSet(raw_line, {BOM}))
        text == Strip(LStripSet(stripped, {HASH}))
    IN  IF stripped = <<>> THEN st
        ELSE IF st.metadata_section /\ StartsWith(stripped, HASH) /\ Contains(text, COLON)
        THEN [st EXCEPT !.metadata =
                 DictSet(@, Strip(SubSeq(text, 1, FirstColon(text) - 1)),
                            Strip(SubSeq(text, FirstColon(text) + 1, Len(text))))]
        ELSE IF StartsWith(stripped, HASH) THEN [st EXCEPT !.metadata_section = FALSE]
        ELSE [st EXCEPT !.genes = Append(@, stripped)]

\* one iteration of the loop of parse_panel
ParseLine(st, raw_line) ==
    LET line == LStripSet(raw_line, {BOM})
        stripped == Strip(line)
        text == Strip(LStripSet(stripped, {HASH}))
    IN  IF stripped = <<>> THEN st
        ELSE IF st.metadata_section /\ StartsWith(stripped, HASH) /\ Contains(text, COLON)
        THEN LET k == FirstColon(text) IN
             [st EXCEPT !.metadata =
                 DictSet(@, Strip(SubSeq(text, 1, k - 1)), Strip(SubSeq(text, k + 1, Len(text))))]
        ELSE IF StartsWith(stripped, HASH) THEN [st EXCEPT !.metadata_section = FALSE]
        ELSE [st EXCEPT !.metadata_section = FALSE, !.genes = Append(@, stripped)]

RECURSIVE ParseLoop(_, _, _)
ParseLoop(st, lines, i) ==
    IF i > Len(lines) THEN st ELSE ParseLoop(ParseLine(st, lines[i]), lines, i + 1)

\* parse_panel(path) on a file holding text: (metadata, genes)
parse_panel(text) ==
    LET st == ParseLoop(ParseStart, SplitLines(text), 1) IN <<st.metadata, st.genes>>

(***************************************************************************)
(* Inputs: panel texts built from a pool of lines                          *)
(***************************************************************************)
MaxLines == 3

RECURSIVE JoinLines(_)
\* "\n".join(lines)
JoinLines(ls) ==
    IF ls = <<>> THEN <<>>
    ELSE IF Len(ls) = 1 THEN ls[1]
    ELSE ls[1] \o <<NL>> \o JoinLines(Tail(ls))

LineLists(pool, n) == UNION {[1..k -> pool] : k \in 0..n}

\* the texts of up to n lines of the pool, with and without a byte-order mark in
\* front and a newline at the end
Texts(pool, n) ==
    {pre \o JoinLines(ls) \o end :
        ls \in LineLists(pool, n), pre \in {<<>>, <<BOM>>}, end \in {<<>>, <<NL>>}}

\* three spellings of one gene that differ only in case, with U+0100 or U+0101
\* before "B" or "b" so that both the ASCII and the non-ASCII case mappings
\* are used, then "C", "A B", "A<tab>B", " C", "#c" and the empty line
ValidateLines ==
    {<<256, 66>>, <<256, 98>>, <<257, 66>>, <<67>>, <<65, 32, 66>>, <<65, 9, 66>>,
     <<32, 67>>, <<35, 99>>, <<>>}

ValidateContents == Texts(ValidateLines, MaxLines)

PanelPath == "panels/p.txt"

(***************************************************************************)
(* Validation of one text: by the batch validator and by the editor        *)
(***************************************************************************)
CliNotRun == [ran |-> FALSE, errors |-> <<>>, warnings |-> <<>>]
EditorNotRun == [ran |-> FALSE, msg |-> NoMsg]

ValidateIdle == content = <<>> /\ cli = CliNotRun /\ editor = EditorNotRun
BatchIdle ==
    /\ isdir = FALSE /\ files = <<>> /\ pending = {} /\ errors = <<>> /\ all_warnings = <<>>
    /\ exit_status = -1 /\ pc = "idle" /\ printed = NoOutput
SortCliNotRun == [ran |-> FALSE, error |-> NoErr]
SortEditorNotRun == [ran |-> FALSE, unsorted |-> FALSE]
SortIdle == glist = <<>> /\ sort_cli = SortCliNotRun /\ sort_editor = SortEditorNotRun
Absent == [exists |-> FALSE, text |-> <<>>]
DiffCliNotRun ==
    [ran |-> FALSE, base_genes |-> {}, head_genes |-> {}, added |-> <<>>, removed |-> <<>>]
DiffEditorNotRun ==
    [ran |-> FALSE, original_genes |-> <<>>, updated_genes |-> <<>>,
     added |-> <<>>, removed |-> <<>>]
DiffIdle ==
    base = Absent /\ head = Absent /\ diff_cli = DiffCliNotRun /\ diff_editor = DiffEditorNotRun
ParseIdle ==
    /\ ptext = <<>> /\ idx = 0 /\ metadata = <<>> /\ genes = <<>>
    /\ metadata_section = TRUE
ReportIdle ==
    /\ changed = <<>> /\ refs = <<>> /\ rpc = "idle" /\ todo = <<>> /\ rlines = <<>>
    /\ summary = <<>> /\ stdout = <<>> /\ rstatus = -1
NoRemote == [branch |-> FALSE, committed |-> FALSE, content |-> <<>>, pull_request |-> FALSE]
NoResponse == [kind |-> "none", error |-> NoMsg, added |-> <<>>, removed |-> <<>>]
SaveIdle ==
    /\ form = <<>> /\ on_disk = <<>> /\ panel_ok = FALSE /\ configured = FALSE
    /\ spc = "idle" /\ calls = <<>> /\ remote = NoRemote /\ response = NoResponse

InitValidate ==
    /\ content \in ValidateContents
    /\ cli = CliNotRun
    /\ editor = EditorNotRun
    /\ BatchIdle /\ SortIdle /\ DiffIdle /\ ParseIdle /\ ReportIdle /\ SaveIdle

\* scripts/validate_panels.py on a panels directory holding this one file
RunCli ==
    /\ ~cli.ran
    /\ LET r == ValidateFile(PanelPath, content) IN
       cli' = [ran |-> TRUE, errors |-> r.errors, warnings |-> r.warnings]
    /\ UNCHANGED <<content, editor, batchVars, sortVars, diffVars, parseVars, reportVars, saveVars>>

\* the editor's validate_content on the same text
RunEditor ==
    /\ ~editor.ran
    /\ editor' = [ran |-> TRUE, msg |-> validate_content(content)]
    /\ UNCHANGED <<content, cli, batchVars, sortVars, diffVars, parseVars, reportVars, saveVars>>

NextValidate == RunCli \/ RunEditor

SpecValidate == InitValidate /\ [][NextValidate]_vars

(***************************************************************************)
(* The panel format, stated on the text itself                             *)
(***************************************************************************)
NlAt(t) == {k \in 1..Len(t) : t[k] = NL}

NoFinalNewline(t) == t # <<>> /\ t[Len(t)] # NL

NumLines(t) == Cardinality(NlAt(t)) + (IF NoFinalNewline(t) THEN 1 ELSE 0)

\* line i of t (1-based), without its newline
LineText(t, i) ==
    LET nls == NlAt(t)
        nth(j) == CHOOSE k \in nls : Cardinality({m \in nls : m <= k}) = j
        first == IF i = 1 THEN 1 ELSE nth(i - 1) + 1
        last == IF i <= Cardinality(nls) THEN nth(i) - 1 ELSE Len(t)
    IN  SubSeq(t, first, last)

Trimmed(t, i) == Strip(LineText(t, i))

\* neither blank nor a comment
IsGeneLine(t, i) == LET s == Trimmed(t, i) IN s # <<>> /\ s[1] # HASH

\* a space or a tab anywhere in the line as written
RawWsLine(t, i) ==
    LET s == LineText(t, i) IN IsGeneLine(t, i) /\ \E k \in 1..Len(s) : s[k] \in {32, 9}

\* whitespace left inside the line once it is trimmed
WsLine(t, i) ==
    LET s == Trimmed(t, i) IN IsGeneLine(t, i) /\ \E k \in 1..Len(s) : s[k] \in Whitespace

\* a gene line with no whitespace left inside: IsGeneLine and not WsLine
CleanGene(t, i) ==
    LET s == Trimmed(t, i)
    IN  s # <<>> /\ s[1] # HASH /\ \A k \in 1..Len(s) : s[k] \notin Whitespace

\* the same token, in the same case, on an earlier line
ExactDup(t, j) ==
    LET s == Trimmed(t, j)
    IN  CleanGene(t, j) /\ \E i \in 1..(j - 1) : Trimmed(t, i) = s /\ CleanGene(t, i)

\* the earlier lines whose token differs from line j's in case only
NearDups(t, j) ==
    LET s == Trimmed(t, j)
        key == Lower(s)
    IN  IF ~CleanGene(t, j) THEN {}
        ELSE {i \in 1..(j - 1) : LET u == Trimmed(t, i)
                                 IN  u # s /\ Lower(u) = key /\ CleanGene(t, i)}

LineViolation(t, i) == WsLine(t, i) \/ ExactDup(t, i)

\* some gene sorts, case-insensitively, before a gene of an earlier line
Unsorted(t) ==
    LET clean == {i \in 1..NumLines(t) : CleanGene(t, i)}
        key == [i \in clean |-> Lower(Trimmed(t, i))]
    IN  \E i, j \in clean : i < j /\ StrLess(key[j], key[i])

AnyViolation(t) ==
    NoFinalNewline(t) \/ (\E i \in 1..NumLines(t) : LineViolation(t, i)) \/ Unsorted(t)

NumViolations(t) ==
    (IF NoFinalNewline(t) THEN 1 ELSE 0)
    + Cardinality({i \in 1..NumLines(t) : LineViolation(t, i)})
    + (IF Unsorted(t) THEN 1 ELSE 0)

\* line i is met by a scan that stops at the first violation
Reached(t, i) == ~NoFinalNewline(t) /\ \A j \in 1..(i - 1) : ~LineViolation(t, j)

\* the same for the editor, which also stops at a repeat in another case
ReachedByEditor(t, i) == Reached(t, i) /\ \A j \in 1..(i - 1) : NearDups(t, j) = {}

\* the text as the batch validator reads it from the file
CliText == ReadText(content)

\* the first violation in the order of the checks: what it is and the line it cites
FirstViolation(t) ==
    IF NoFinalNewline(t) THEN <<"newline", 0, <<>> >>
    ELSE IF \E i \in 1..NumLines(t) : LineViolation(t, i)
    THEN LET i == CHOOSE i \in 1..NumLines(t) : LineViolation(t, i) /\ Reached(t, i)
         IN  <<IF WsLine(t, i) THEN "whitespace" ELSE "duplicate", i, Trimmed(t, i)>>
    ELSE <<"unsorted", 0, <<>> >>

Cited(e) == <<e.kind, e.line, IF e.kind = "unsorted" THEN <<>> ELSE e.text>>

(***************************************************************************)
(* Claims on the validation of one text                                    *)
(***************************************************************************)
ErrorsCiting(i) == {k \in 1..Len(cli.errors) : cli.errors[k].line = i}
WarningsCiting(i) == {k \in 1..Len(cli.warnings) : cli.warnings[k].line = i}

\* C1: validation of one file never short-circuits: every rule violation present
\* in the file is reported by the same run, so a file with n independent
\* violations yields at least n errors.
C1_EveryViolationReported ==
    cli.ran => Len(cli.errors) >= NumViolations(CliText)

\* what the code does instead of C1: validation of one file stops at the first
\* violation it meets, in the order trailing newline, then line by line
\* (whitespace, exact duplicate), then sortedness. A file with one or more
\* violations yields exactly one error, the first one; a file with none yields no
\* error. The editor likewise returns one message, and returns one exactly when
\* the text has a violation or a repeat of a gene in another case.
C1_FirstViolationOnly ==
    /\ cli.ran =>
        /\ Len(cli.errors) = (IF AnyViolation(CliText) THEN 1 ELSE 0)
        /\ AnyViolation(CliText) => Cited(cli.errors[1]) = FirstViolation(CliText)
    /\ editor.ran =>
        (editor.msg # NoMsg <=>
            (AnyViolation(content) \/ \E i \in 1..NumLines(content) : NearDups(content, i) # {}))

\* whitespace-free gene lines, no two identical in the same case, in
\* case-insensitive ascending order, and a newline at the end
WellFormedExact(t) ==
    /\ t # <<>> /\ t[Len(t)] = NL
    /\ \A i \in 1..NumLines(t) :
           IsGeneLine(t, i) => \A k \in 1..Len(LineText(t, i)) : LineText(t, i)[k] \notin Whitespace
    /\ \A i, j \in 1..NumLines(t) :
           (i < j /\ IsGeneLine(t, i) /\ IsGeneLine(t, j)) => Trimmed(t, i) # Trimmed(t, j)
    /\ ~Unsorted(t)

\* the same, with no two gene lines equal even when compared case-insensitively
WellFormedStrict(t) ==
    /\ WellFormedExact(t)
    /\ \A i \in 1..NumLines(t) : NearDups(t, i) = {}

\* C4 as claimed: a text ending in a newline whose gene lines are whitespace-free,
\* pairwise not identical (case-sensitive) and case-insensitively ascending yields
\* no errors and no warnings.
C4_ExactUniqueSortedIsClean ==
    /\ (cli.ran /\ WellFormedExact(CliText)) => (cli.errors = <<>> /\ cli.warnings = <<>>)
    /\ (editor.ran /\ WellFormedExact(content)) => editor.msg = NoMsg

\* C4 as amended: the same holds when the gene lines are pairwise distinct also
\* when compared case-insensitively; two gene lines that differ only in case draw a
\* warning from the batch validator and a blocking message from the editor.
C4_CaseUniqueSortedIsClean ==
    /\ (cli.ran /\ WellFormedStrict(CliText)) => (cli.errors = <<>> /\ cli.warnings = <<>>)
    /\ (editor.ran /\ WellFormedStrict(content)) => editor.msg = NoMsg

\* a validated well-formed text with two genes and a comment
C4_Witness ==
    /\ cli.ran /\ editor.ran
    /\ WellFormedStrict(content)
    /\ Cardinality({i \in 1..NumLines(content) : IsGeneLine(content, i)}) >= 2
    /\ \E i \in 1..NumLines(content) : StartsWith(Trimmed(content, i), HASH)
    /\ cli.errors = <<>> /\ editor.msg = NoMsg

FirstNearDup(t, j) == CHOOSE i \in NearDups(t, j) : \A m \in NearDups(t, j) : i <= m

TxtNames == {<<97, 46, 116, 120, 116>>, <<98, 46, 116, 120, 116>>, <<99, 46, 116, 120, 116>>}
OtherNames == {<<100, 46, 109, 100>>}
DirNames == TxtNames \cup OtherNames

\* "AB\nC\n", "AB" (no final newline), "AB\nAb\n" (a warning only),
\* "C\nAB\nAb\n" (a warning and a sort error), "A B\n" and the empty file
ReadableContents ==
    {<<65, 66, 10, 67, 10>>, <<65, 66>>, <<65, 66, 10, 65, 98, 10>>,
     <<67, 10, 65, 66, 10, 65, 98, 10>>, <<65, 32, 66, 10>>, <<>>}

\* a file of the bytes FF 0A, and a directory
UnreadableContents == {<<INVALID, 10>>, DirectoryEntry}

BatchContents == ReadableContents \cup UnreadableContents

InitBatch ==
    /\ \/ /\ isdir = TRUE
          /\ files \in [DirNames -> BatchContents]
          /\ \A n \in OtherNames : files[n] \in {<<>>, <<INVALID, 10>>}
       \/ /\ isdir = FALSE
          /\ files = <<>>
    /\ pending = {}
    /\ errors = <<>>
    /\ all_warnings = <<>>
    /\ exit_status = -1
    /\ pc = "start"
    /\ printed = NoOutput
    /\ ValidateIdle /\ SortIdle /\ DiffIdle /\ ParseIdle /\ ReportIdle /\ SaveIdle

\* if not os.path.isdir(PANELS_DIR): sys.exit(1)
MainStart ==
    /\ pc = "start"
    /\ IF isdir
       THEN pc' = "loop" /\ pending' = DOMAIN files /\ UNCHANGED <<exit_status, printed>>
       ELSE /\ pc' = "exited" /\ exit_status' = 1 /\ UNCHANGED pending
            /\ printed' = Output(<<>>, <<>>, "Panels directory not found")
    /\ UNCHANGED <<isdir, files, errors, all_warnings>>
    /\ UNCHANGED <<validateVars, sortVars, diffVars, parseVars, reportVars, saveVars>>

\* one iteration of "for filename in os.listdir(PANELS_DIR)", in the directory's
\* order; an exception that is not caught ends the process with a traceback and
\* status 1, and nothing of errors and all_warnings is printed
MainVisit ==
    /\ pc = "loop"
    /\ \E filename \in pending :
        /\ pending' = pending \ {filename}
        /\ IF ~IsTxt(filename)
           THEN UNCHANGED <<errors, all_warnings, exit_status, pc, printed>>
           ELSE LET r == TryFile(errors, all_warnings, filename, files[filename]) IN
                IF r.uncaught = NoErr
                THEN /\ errors' = r.errors /\ all_warnings' = r.all_warnings
                     /\ UNCHANGED <<exit_status, pc, printed>>
                ELSE /\ pc' = "crashed" /\ exit_status' = 1
                     /\ printed' = Output(<<>>, <<>>, "Traceback (most recent call last):")
                     /\ UNCHANGED <<errors, all_warnings>>
    /\ UNCHANGED <<isdir, files>>
    /\ UNCHANGED <<validateVars, sortVars, diffVars, parseVars, reportVars, saveVars>>

\* after the loop: the warnings and errors are printed and the exit status is set
MainFinish ==
    /\ pc = "loop"
    /\ pending = {}
    /\ printed' = FinalOutput(errors, all_warnings)
    /\ exit_status' = ExitStatus(errors, all_warnings)
    /\ pc' = "exited"
    /\ UNCHANGED <<isdir, files, pending, errors, all_warnings>>
    /\ UNCHANGED <<validateVars, sortVars, diffVars, parseVars, reportVars, saveVars>>

NextBatch == MainStart \/ MainVisit \/ MainFinish

SpecBatch == InitBatch /\ [][NextBatch]_vars

\* the .txt entries of the directory
TxtFiles == {f \in DOMAIN files : IsTxt(f)}

\* the .txt entries the loop has been through
Visited == IF pc = "start" \/ ~isdir THEN {} ELSE TxtFiles \ pending

\* the .txt entries whose validation was completed, by a result or by a
\* ValidationError
Evaluated == {f \in Visited : ValidateFile(f, files[f]).uncaught = NoErr}

ErrorsOf(f) == SelectSeq(errors, LAMBDA e : e.file = f)
WarningsOf(f) == SelectSeq(all_warnings, LAMBDA w : w.file = f)

\* the run is over
Ended == pc \in {"exited", "crashed"}

\* C2: in a batch run, in any iteration order, each file visited has contributed
\* exactly the errors and warnings it yields when validated alone, whatever the
\* other files hold; a file without its final newline contributes exactly one
\* error; and when the run ends every .txt file has been evaluated and what the
\* files contributed has been printed.
C2_FilesIndependent ==
    /\ \A f \in Evaluated :
        /\ ErrorsOf(f) = ValidateFile(f, files[f]).errors
        /\ WarningsOf(f) = ValidateFile(f, files[f]).warnings
        /\ NoFinalNewline(ReadText(files[f])) =>
              (Len(ErrorsOf(f)) = 1 /\ ErrorsOf(f)[1].kind = "newline")
    /\ Len(errors) = Cardinality({f \in Evaluated : ErrorsOf(f) # <<>>})
    /\ (Ended /\ isdir) =>
          /\ Evaluated = {f \in TxtFiles : Readable(files[f])}
          /\ printed.errors = errors /\ printed.warnings = all_warnings

\* what holds of every run: the files evaluated contributed what they yield
\* alone, and a run that comes to its end has evaluated and printed all of them;
\* a run ends early exactly at a file that cannot be read
C2_ReadableFilesIndependent ==
    /\ \A f \in Evaluated :
        /\ ErrorsOf(f) = ValidateFile(f, files[f]).errors
        /\ WarningsOf(f) = ValidateFile(f, files[f]).warnings
        /\ NoFinalNewline(ReadText(files[f])) =>
              (Len(ErrorsOf(f)) = 1 /\ ErrorsOf(f)[1].kind = "newline")
    /\ Len(errors) = Cardinality({f \in Evaluated : ErrorsOf(f) # <<>>})
    /\ (pc = "exited" /\ isdir) =>
          /\ Evaluated = TxtFiles
          /\ printed.errors = errors /\ printed.warnings = all_warnings
    /\ pc = "crashed" =>
          /\ \E f \in Visited : ValidateFile(f, files[f]).uncaught # NoErr
          /\ printed.errors = <<>> /\ printed.warnings = <<>>
    /\ (pc = "loop" /\ isdir) => Evaluated = Visited

\* a file "produced an error": it cannot be read, or validating it raises
Failing(f) ==
    LET r == ValidateFile(f, files[f]) IN r.uncaught # NoErr \/ r.errors # <<>>

\* C3: when the panels root exists the run ends with exit status 0 if and only if no
\* file produced an error, that is, every .txt file can be read and holds no
\* violation; warnings alone never make it non-zero.
C3_ExitZeroIffNoError ==
    (Ended /\ isdir) =>
        /\ exit_status \in {0, 1}
        /\ exit_status = 0 <=> (pc = "exited" /\ errors = <<>>)
        /\ exit_status = 0 <=> \A f \in TxtFiles : ~Failing(f)
        /\ exit_status = 0 <=>
              \A f \in TxtFiles :
                  /\ Readable(files[f])
                  /\ ~AnyViolation(ReadText(files[f]))

\* a finished run with warnings, no error and exit status 0
C3_Witness ==
    /\ pc = "exited" /\ isdir
    /\ all_warnings # <<>>
    /\ printed.warnings = all_warnings
    /\ errors = <<>>
    /\ exit_status = 0

(***************************************************************************)
(* The sortedness checks on a gene list                                    *)
(***************************************************************************)
MaxGenes == 4

\* "AB", "a" and "B", then U+0100 and U+0101, which differ only in case and are
\* outside ASCII
SortTokens == {<<65, 66>>, <<97>>, <<66>>, <<256>>, <<257>>}

InitSorted ==
    /\ glist \in LineLists(SortTokens, MaxGenes)
    /\ sort_cli = SortCliNotRun
    /\ sort_editor = SortEditorNotRun
    /\ ValidateIdle /\ BatchIdle /\ DiffIdle /\ ParseIdle /\ ReportIdle /\ SaveIdle

\* validate_sorted(genes, path) of the batch validator
RunValidateSorted ==
    /\ ~sort_cli.ran
    /\ sort_cli' = [ran |-> TRUE, error |-> validate_sorted(glist, PanelPath)]
    /\ UNCHANGED <<glist, sort_editor, validateVars, batchVars, diffVars, parseVars, reportVars, saveVars>>

\* the "check sorted" step of validate_content, on the same list as seen
RunKeysCheck ==
    /\ ~sort_editor.ran
    /\ sort_editor' = [ran |-> TRUE, unsorted |-> KeysUnsorted(glist)]
    /\ UNCHANGED <<glist, sort_cli, validateVars, batchVars, diffVars, parseVars, reportVars, saveVars>>

NextSorted == RunValidateSorted \/ RunKeysCheck

SpecSorted == InitSorted /\ [][NextSorted]_vars

\* the place of gs[i] in the case-insensitive stable sort of gs
Rank(gs, i) ==
    1 + Cardinality({j \in 1..Len(gs) :
            \/ StrLess(Lower(gs[j]), Lower(gs[i]))
            \/ (Lower(gs[j]) = Lower(gs[i]) /\ j < i)})

\* gs sorted by lower-cased key, equal keys keeping their order
StableSortCI(gs) == [r \in 1..Len(gs) |-> gs[CHOOSE i \in 1..Len(gs) : Rank(gs, i) = r]]

\* C7: each sortedness check rejects a gene list if and only if the list differs from
\* its own case-insensitive stable sort, so the adjacent-pair scan of validate_sorted
\* and the whole-list comparison of validate_content accept the same lists; a
\* rejected list yields one file-scoped sort error.
C7_SortChecksAgree ==
    /\ sort_cli.ran =>
        /\ sort_cli.error # NoErr <=> glist # StableSortCI(glist)
        /\ sort_cli.error # NoErr => (sort_cli.error.kind = "unsorted" /\ sort_cli.error.line = 0)
    /\ sort_editor.ran => (sort_editor.unsorted <=> glist # StableSortCI(glist))
    /\ (sort_cli.ran /\ sort_editor.ran) => (sort_cli.error # NoErr <=> sort_editor.unsorted)

\* both checks have run on a list of four genes holding two that differ only in
\* case, next to each other and in place, and a later gene out of place
C7_Witness ==
    /\ sort_cli.ran /\ sort_editor.ran
    /\ Len(glist) = 4
    /\ Lower(glist[1]) = Lower(glist[2]) /\ glist[1] # glist[2]
    /\ StrLess(Lower(glist[4]), Lower(glist[3]))
    /\ sort_cli.error.pos = 4
    /\ sort_editor.unsorted

(***************************************************************************)
(* The differ: generate_diff for one changed file, and the editor's        *)
(* diff_genes                                                              *)
(***************************************************************************)
MaxDiffLines == 2

ALPHA == <<65, 76, 80, 72, 65>>
BETA == <<66, 69, 84, 65>>
LOWER_ALPHA == <<97, 108, 112, 104, 97>>

\* "ALPHA", "BETA", "alpha" and the comment "#c"
DiffLines == {ALPHA, BETA, LOWER_ALPHA, <<35, 99>>}

\* the texts at the base ref; at the head ref also with a byte-order mark in front
DiffContents(marks) ==
    {pre \o JoinLines(ls) \o <<NL>> :
        ls \in LineLists(DiffLines, MaxDiffLines), pre \in marks}

\* the file at a ref: absent, or present with its text
Blobs(marks) == {Absent} \cup {[exists |-> TRUE, text |-> t] : t \in DiffContents(marks)}

InitDiff ==
    /\ base \in Blobs({<<>>})
    /\ head \in Blobs({<<>>, <<BOM>>})
    /\ diff_cli = DiffCliNotRun
    /\ diff_editor = DiffEditorNotRun
    /\ ValidateIdle /\ BatchIdle /\ SortIdle /\ ParseIdle /\ ReportIdle /\ SaveIdle

\* the body of generate_diff's loop for one changed file
RunGenerateDiff ==
    /\ ~diff_cli.ran
    /\ LET base_genes == read_genes_from_blob(base)
           head_genes == read_genes_from_blob(head)
       IN  \E iter_added \in Enumerations(head_genes \ base_genes),
              iter_removed \in Enumerations(base_genes \ head_genes) :
               LET d == DiffLists(base_genes, head_genes, iter_added, iter_removed) IN
               diff_cli' = [ran |-> TRUE, base_genes |-> base_genes, head_genes |-> head_genes,
                            added |-> d.added, removed |-> d.removed]
    /\ UNCHANGED <<base, head, diff_editor, validateVars, batchVars, sortVars, parseVars, reportVars, saveVars>>

\* diff_genes(original, content) as save_panel calls it; the panel file exists
RunDiffGenes ==
    /\ ~diff_editor.ran
    /\ base.exists /\ head.exists
    /\ LET orig_set == Range(parse_genes(base.text))
           new_set == Range(parse_genes(head.text))
       IN  \E iter_added \in Enumerations(new_set \ orig_set),
              iter_removed \in Enumerations(orig_set \ new_set) :
               LET d == diff_genes(base.text, head.text, iter_added, iter_removed) IN
               diff_editor' = [ran |-> TRUE, original_genes |-> parse_genes(base.text),
                               updated_genes |-> parse_genes(head.text),
                               added |-> d.added, removed |-> d.removed]
    /\ UNCHANGED <<base, head, diff_cli, validateVars, batchVars, sortVars, parseVars, reportVars, saveVars>>

NextDiff == RunGenerateDiff \/ RunDiffGenes

SpecDiff == InitDiff /\ [][NextDiff]_vars

\* ascending in case-sensitive lexicographic order, with no element twice
StrictlyAscending(s) == \A k \in 1..(Len(s) - 1) : StrLess(s[k], s[k + 1])

\* C8: added lists exactly the genes in head and not in base, removed exactly those
\* in base and not in head (compared case-sensitively), each duplicate-free and in
\* ascending case-sensitive order, whatever the order and multiplicity of the genes
\* in the inputs and the order in which the sets are iterated.
C8_DiffIsSortedSetDifference ==
    /\ diff_cli.ran =>
        /\ Range(diff_cli.added) = diff_cli.head_genes \ diff_cli.base_genes
        /\ Range(diff_cli.removed) = diff_cli.base_genes \ diff_cli.head_genes
        /\ StrictlyAscending(diff_cli.added) /\ StrictlyAscending(diff_cli.removed)
    /\ diff_editor.ran =>
        /\ Range(diff_editor.added)
              = Range(diff_editor.updated_genes) \ Range(diff_editor.original_genes)
        /\ Range(diff_editor.removed)
              = Range(diff_editor.original_genes) \ Range(diff_editor.updated_genes)
        /\ StrictlyAscending(diff_editor.added) /\ StrictlyAscending(diff_editor.removed)

\* base [ALPHA, BETA], head [alpha, ALPHA]: added [alpha], removed [BETA]
C8_Witness ==
    /\ diff_cli.ran /\ diff_editor.ran
    /\ diff_editor.original_genes = <<ALPHA, BETA>>
    /\ diff_editor.updated_genes = <<LOWER_ALPHA, ALPHA>>
    /\ diff_cli.added = <<LOWER_ALPHA>> /\ diff_cli.removed = <<BETA>>
    /\ diff_editor.added = <<LOWER_ALPHA>> /\ diff_editor.removed = <<BETA>>

\* C9: a text that begins with a byte-order mark yields the same metadata and the
\* same genes as the text with the mark removed, in parse_panel, read_panel,
\* read_genes_from_blob and parse_genes.
C9_BomTransparent ==
    (base.exists /\ head.exists /\ head.text = <<BOM>> \o base.text) =>
        /\ parse_panel(head.text) = parse_panel(base.text)
        /\ read_panel(PanelPath, head.text) = read_panel(PanelPath, base.text)
        /\ diff_cli.ran => diff_cli.head_genes = diff_cli.base_genes
        /\ diff_editor.ran => diff_editor.updated_genes = diff_editor.original_genes

(***************************************************************************)
(* parse_panel of app.py, one line of the file at a time                   *)
(***************************************************************************)
\* "# k: v", "#k:w", "# j :x", the comment "#n", the empty line, "AB" and " C "
ParseLines ==
    {<<35, 32, 107, 58, 32, 118>>, <<35, 107, 58, 119>>, <<35, 32, 106, 32, 58, 120>>,
     <<35, 110>>, <<>>, <<65, 66>>, <<32, 67, 32>>}

ParseContents ==
    {pre \o JoinLines(ls) \o <<NL>> :
        ls \in LineLists(ParseLines, MaxLines), pre \in {<<>>, <<BOM>>}}

InitParse ==
    /\ ptext \in ParseContents
    /\ idx = 0
    /\ metadata = ParseStart.metadata
    /\ genes = ParseStart.genes
    /\ metadata_section = ParseStart.metadata_section
    /\ ValidateIdle /\ BatchIdle /\ SortIdle /\ DiffIdle /\ ReportIdle /\ SaveIdle

\* the next iteration of "for raw_line in path.read_text(...).splitlines()"
ParseNextLine ==
    /\ idx < Len(SplitLines(ptext))
    /\ LET st == ParseLine([metadata |-> metadata, genes |-> genes,
                            metadata_section |-> metadata_section],
                           SplitLines(ptext)[idx + 1])
       IN  /\ metadata' = st.metadata
           /\ genes' = st.genes
           /\ metadata_section' = st.metadata_section
    /\ idx' = idx + 1
    /\ UNCHANGED <<ptext, validateVars, batchVars, sortVars, diffVars, reportVars, saveVars>>

NextParse == ParseNextLine

SpecParse == InitParse /\ [][NextParse]_vars

\* line i of the file, trimmed, a byte-order mark in front of it aside
PTrim(i) == Strip(LStripSet(LineText(ptext, i), {BOM}))
PBlank(i) == PTrim(i) = <<>>
PComment(i) == ~PBlank(i) /\ PTrim(i)[1] = HASH
\* a comment line containing a colon
PKeyValue(i) == PComment(i) /\ COLON \in Range(PTrim(i))
\* every non-blank line before line i is a comment line containing a colon
InSection(i) == \A j \in 1..(i - 1) : PBlank(j) \/ PKeyValue(j)
PRecorded(i) == PKeyValue(i) /\ InSection(i)
PGene(i) == ~PBlank(i) /\ ~PComment(i)

\* the text of a comment line after its "#"s, and its two sides of the first colon
PText(i) == Strip(LStripSet(PTrim(i), {HASH}))
PColon(i) == CHOOSE k \in 1..Len(PText(i)) : PText(i)[k] = COLON /\ COLON \notin Range(SubSeq(PText(i), 1, k - 1))
PKey(i) == Strip(SubSeq(PText(i), 1, PColon(i) - 1))
PValue(i) == Strip(SubSeq(PText(i), PColon(i) + 1, Len(PText(i))))

\* the gene lines among the first n lines, trimmed, in file order
RECURSIVE PGenes(_)
PGenes(n) ==
    IF n = 0 THEN <<>>
    ELSE IF PGene(n) THEN Append(PGenes(n - 1), PTrim(n)) ELSE PGenes(n - 1)

\* after idx lines: the section is open exactly when every non-blank line so far
\* was a comment with a colon; metadata holds exactly the keys of the lines
\* recorded, each with the value of the last such line; genes holds the trimmed
\* other non-blank lines in file order
C10_Scanned ==
    /\ metadata_section = InSection(idx + 1)
    /\ {metadata[k][1] : k \in 1..Len(metadata)} = {PKey(i) : i \in {i \in 1..idx : PRecorded(i)}}
    /\ \A k \in 1..Len(metadata) :
          \E i \in 1..idx :
              /\ PRecorded(i) /\ PKey(i) = metadata[k][1] /\ PValue(i) = metadata[k][2]
              /\ \A j \in (i + 1)..idx : PRecorded(j) => PKey(j) # PKey(i)
    /\ \A k, m \in 1..Len(metadata) : k # m => metadata[k][1] # metadata[m][1]
    /\ genes = PGenes(idx)

\* one line scanned: the section never reopens, a line adds to metadata only while
\* the section is open and leaves it open, and never adds to both metadata and genes
C10_Step ==
    /\ metadata_section' => metadata_section
    /\ metadata' # metadata => (metadata_section /\ metadata_section' /\ genes' = genes)
    /\ genes' # genes => (~metadata_section' /\ metadata' = metadata)

\* C10: while the lines are scanned in order the metadata section only ever ends and
\* never resumes; a "# key: value" line is recorded (split at the first colon, both
\* sides trimmed) only if every earlier non-blank line was a comment line with a
\* colon; blank lines never end the section; afterwards comment lines are ignored
\* and every other non-blank line is appended, trimmed, to genes in file order; no
\* line adds to both metadata and genes.
C10_SectionNeverResumes == []C10_Scanned /\ [][C10_Step]_vars

\* the scan has passed a recorded "# key: value" line, a gene, and then a
\* "# key: value" line that was ignored
C10_Witness ==
    /\ idx = 3
    /\ \E i \in 1..idx : PRecorded(i)
    /\ \E i, j \in 1..idx : i < j /\ PGene(i) /\ PKeyValue(j) /\ ~PRecorded(j)
    /\ Len(metadata) = 1 /\ Len(genes) = 1
    /\ ~metadata_section

(***************************************************************************)
(* The report of scripts/panel_diff.py: main and generate_diff over the    *)
(* changed files                                                           *)
(***************************************************************************)
MaxFiles == 2

\* "panels/"
PanelsPrefix == <<112, 97, 110, 101, 108, 115, 47>>

ReportNames == {PanelsPrefix \o n : n \in DirNames}

\* the paths git diff --name-only prints, in the order it prints them
ChangedLists ==
    {ns \in LineLists(ReportNames, MaxFiles) : \A i, j \in 1..Len(ns) : i # j => ns[i] # ns[j]}

\* the file at a ref, holding the text t
Present(t) == [exists |-> TRUE, text |-> t]

\* "ALPHA\n", "#c\nALPHA\n" and "GAMMA\nBETA\n"
AlphaText == ALPHA \o <<NL>>
CommentedAlphaText == <<HASH, 99, NL>> \o ALPHA \o <<NL>>
GammaBetaText == <<71, 65, 77, 77, 65, NL>> \o BETA \o <<NL>>

\* a changed file at the base and at the head ref: a new file, a deleted file, a
\* deleted file that held a comment, a change of comments only, and a change of
\* every gene
ReportPairs ==
    {[base |-> Absent, head |-> Present(GammaBetaText)],
     [base |-> Present(GammaBetaText), head |-> Absent],
     [base |-> Present(CommentedAlphaText), head |-> Absent],
     [base |-> Present(AlphaText), head |-> Present(CommentedAlphaText)],
     [base |-> Present(AlphaText), head |-> Present(GammaBetaText)]}

InitReport ==
    /\ \E ns \in ChangedLists :
          /\ changed = (IF ns = <<>> THEN <<>> ELSE JoinLines(ns) \o <<NL>>)
          /\ refs \in [{n \in Range(ns) : IsTxt(n)} -> ReportPairs]
    /\ rpc = "start"
    /\ todo = <<>>
    /\ rlines = <<>>
    /\ summary = <<>>
    /\ stdout = <<>>
    /\ rstatus = -1
    /\ ValidateIdle /\ BatchIdle /\ SortIdle /\ DiffIdle /\ ParseIdle /\ SaveIdle

\* main up to the loop of generate_diff: the usage check, git diff --name-only and
\* sorted(changed_files)
ReportStart ==
    /\ rpc = "start"
    /\ \E argc \in {2, 3}, git_diff_ok \in BOOLEAN :
          IF argc # 3 \/ ~git_diff_ok
          THEN rpc' = "exited" /\ rstatus' = 1 /\ UNCHANGED todo
          ELSE /\ rpc' = "loop"
               /\ todo' = Sorted(list_changed_panel_files(changed))
               /\ UNCHANGED rstatus
    /\ UNCHANGED <<changed, refs, rlines, summary, stdout>>
    /\ UNCHANGED <<validateVars, batchVars, sortVars, diffVars, parseVars, saveVars>>

\* one iteration of "for file in sorted(changed_files)"
ReportVisit ==
    /\ rpc = "loop"
    /\ todo # <<>>
    /\ LET file == Head(todo)
           base_genes == read_genes_from_blob(refs[file].base)
           head_genes == read_genes_from_blob(refs[file].head)
       IN  \E iter_added \in Enumerations(head_genes \ base_genes),
              iter_removed \in Enumerations(base_genes \ head_genes) :
               LET d == DiffLists(base_genes, head_genes, iter_added, iter_removed) IN
               rlines' = rlines \o FileSection(file, d.added, d.removed)
    /\ todo' = Tail(todo)
    /\ UNCHANGED <<changed, refs, rpc, summary, stdout, rstatus>>
    /\ UNCHANGED <<validateVars, batchVars, sortVars, diffVars, parseVars, saveVars>>

\* the return of generate_diff and the print of main
ReportFinish ==
    /\ rpc = "loop"
    /\ todo = <<>>
    /\ summary' = Summary(rlines)
    /\ stdout' = PrintSummary(Summary(rlines))
    /\ rstatus' = 0
    /\ rpc' = "done"
    /\ UNCHANGED <<changed, refs, todo, rlines>>
    /\ UNCHANGED <<validateVars, batchVars, sortVars, diffVars, parseVars, saveVars>>

NextReport == ReportStart \/ ReportVisit \/ ReportFinish

SpecReport == InitReport /\ [][NextReport]_vars

\* the report as the lines of the text generate_diff returns
ReportLines == [i \in 1..NumLines(summary) |-> LineText(summary, i)]

HasPrefix(t, pre) == Len(t) >= Len(pre) /\ SubSeq(t, 1, Len(pre)) = pre

\* the changed panel files, and the genes each gained and lost between the refs
ListedFiles == DOMAIN refs
AddedOf(f) == read_genes_from_blob(refs[f].head) \ read_genes_from_blob(refs[f].base)
RemovedOf(f) == read_genes_from_blob(refs[f].base) \ read_genes_from_blob(refs[f].head)
NonEmptyDiff == {f \in ListedFiles : AddedOf(f) # {} \/ RemovedOf(f) # {}}

\* the genes of S in ascending order, joined by ", "
Listing(S) == JoinWith(CommaSpace, CHOOSE g \in Enumerations(S) : StrictlyAscending(g))

\* the lines a section holds after its header
SectionBody(f) ==
    (IF AddedOf(f) # {} THEN <<AddedPrefix \o Listing(AddedOf(f))>> ELSE <<>>)
    \o (IF RemovedOf(f) # {} THEN <<RemovedPrefix \o Listing(RemovedOf(f))>> ELSE <<>>)

HeaderAt == {i \in 1..Len(ReportLines) : HasPrefix(ReportLines[i], HeaderPrefix)}

\* a section for f starts at line i: its header, its body, and then either the end
\* of the report or one blank line followed by the next header
SectionAt(f, i) ==
    LET body == SectionBody(f)
        end == i + Len(body) + 1
    IN  /\ ReportLines[i] = HeaderPrefix \o f
        /\ end <= Len(ReportLines) + 1
        /\ SubSeq(ReportLines, i + 1, end - 1) = body
        /\ end <= Len(ReportLines) => (ReportLines[end] = <<>> /\ end + 1 \in HeaderAt)

\* C11: the report holds one section per changed file whose diff is not empty and
\* none for the others, in ascending order of the file identifiers; a section is
\* the "## <identifier>" header, then an "Added: ..." line only if genes were
\* added, then a "Removed: ..." line only if genes were removed; two consecutive
\* sections are separated by exactly one blank line.
C11_SectionPerChangedFile ==
    rpc = "done" =>
        /\ Cardinality(HeaderAt) = Cardinality(NonEmptyDiff)
        /\ \A f \in NonEmptyDiff : \E i \in HeaderAt : SectionAt(f, i)
        /\ \A i, j \in HeaderAt : i < j => StrLess(ReportLines[i], ReportLines[j])
        /\ ReportLines # <<>> => 1 \in HeaderAt
        /\ summary # <<>> =>
              (summary[Len(summary)] = NL /\ ReportLines[Len(ReportLines)] # <<>>)

\* two sections in the report, for files that git listed in descending order, and
\* one of them with both lists
C11_Witness ==
    /\ rpc = "done"
    /\ Cardinality(HeaderAt) = 2
    /\ \E f \in NonEmptyDiff : AddedOf(f) # {} /\ RemovedOf(f) # {}
    /\ \E f \in NonEmptyDiff : AddedOf(f) = {} \/ RemovedOf(f) = {}
    /\ LET ns == SplitLines(changed) IN Len(ns) = 2 /\ StrLess(ns[2], ns[1])

\* C12: when no changed file has a non-empty diff, and also when no file changed
\* at all, the output is the line "No gene changes detected."; the output is
\* never empty, and the message is printed in no other case.
C12_NoChangeMessage ==
    rpc = "done" =>
        /\ stdout # <<>> /\ stdout # <<NL>>
        /\ NonEmptyDiff = {} <=> stdout = NoChangeMessage \o <<NL>>

\* a run over a changed panel file whose genes are the same at both refs
C12_Witness ==
    /\ rpc = "done"
    /\ ListedFiles # {} /\ NonEmptyDiff = {}
    /\ summary = <<>>
    /\ stdout = NoChangeMessage \o <<NL>>

\* the lines of the report under the header of f, up to the blank line or the end
BodyOf(f) ==
    LET at == {i \in HeaderAt : ReportLines[i] = HeaderPrefix \o f} IN
    IF at = {} THEN <<>>
    ELSE LET i == CHOOSE i \in at : TRUE
             stops == {j \in (i + 1)..(Len(ReportLines) + 1) :
                          j = Len(ReportLines) + 1 \/ ReportLines[j] = <<>>}
             end == CHOOSE j \in stops : \A k \in stops : j <= k
         IN  SubSeq(ReportLines, i + 1, end - 1)

GenesAt(blob) == read_genes_from_blob(blob)

C13_Sections ==
    rpc = "done" =>
        /\ rstatus = 0
        /\ \A f \in ListedFiles :
              /\ (~refs[f].base.exists /\ refs[f].head.exists) =>
                    BodyOf(f) = (IF GenesAt(refs[f].head) = {} THEN <<>>
                                 ELSE <<AddedPrefix \o Listing(GenesAt(refs[f].head))>>)
              /\ (refs[f].base.exists /\ ~refs[f].head.exists) =>
                    BodyOf(f) = (IF GenesAt(refs[f].base) = {} THEN <<>>
                                 ELSE <<RemovedPrefix \o Listing(GenesAt(refs[f].base))>>)

C13_Step == rpc = "loop" => (rpc' \in {"loop", "done"} /\ rstatus' \in {-1, 0})

\* C13: a file that exists only at the head ref has all of its genes under "Added"
\* and none under "Removed", a file that exists only at the base ref has all of its
\* genes under "Removed" and none under "Added"; a file that cannot be fetched at a
\* ref counts as having no genes there, and the run goes on to the end of the
\* report with exit status 0.
C13_OneSidedFiles == []C13_Sections /\ [][C13_Step]_vars

\* a report on a new file and a deleted file
C13_Witness ==
    /\ rpc = "done"
    /\ \E f, g \in ListedFiles :
          /\ ~refs[f].base.exists /\ Len(BodyOf(f)) = 1 /\ HasPrefix(BodyOf(f)[1], AddedPrefix)
          /\ ~refs[g].head.exists /\ Len(BodyOf(g)) = 1 /\ HasPrefix(BodyOf(g)[1], RemovedPrefix)

(***************************************************************************)
(* save_panel of panel_editor_app/app.py and its calls to GitHubClient     *)
(***************************************************************************)
\* the methods of GitHubClient in the order save_panel calls them
CallOrder == <<"get_branch_sha", "create_branch", "create_or_update_file", "create_pull_request">>

\* what a call of GitHubClient can end in: its value, the HTTPException _request
\* raises for a status of 400 or more, or another exception (requests.request
\* failing to reach the server, resp.json() on a body that is not JSON)
Outcomes == {"ok", "HTTPException", "OtherException"}

\* if not content.endswith("\n"): content += "\n"
Terminated(text) == IF EndsWith(text, NL) THEN text ELSE text \o <<NL>>

\* the repository after a call that took effect there
Effect(r, op, text) ==
    IF op = "create_branch" THEN [r EXCEPT !.branch = TRUE]
    ELSE IF op = "create_or_update_file" THEN [r EXCEPT !.committed = TRUE, !.content = text]
    ELSE IF op = "create_pull_request" THEN [r EXCEPT !.pull_request = TRUE]
    ELSE r

\* the response once the n-th call has ended: the redirect after the last call,
\* the form with "Submission failed" for an HTTPException (line 219), and the
\* server error of an exception nothing catches
ResponseTo(n, outcome) ==
    IF outcome = "ok" THEN (IF n = Len(CallOrder) THEN "redirect" ELSE "none")
    ELSE IF outcome = "HTTPException" THEN "submission_failed"
    ELSE "server_error"

\* "AB\nC\n", "AB\nC" (no final newline), the empty text, "C\nAB\n" (unsorted),
\* "A B\n" and "AB\nAb\n" (a repeat in another case)
SaveForms ==
    {<<65, 66, 10, 67, 10>>, <<65, 66, 10, 67>>, <<>>, <<67, 10, 65, 66, 10>>,
     <<65, 32, 66, 10>>, <<65, 66, 10, 65, 98, 10>>}

\* the panel file on disk: "AB\n" or "AB\nD\n"
SaveOriginals == {<<65, 66, 10>>, <<65, 66, 10, 68, 10>>}

InitSave ==
    /\ form \in SaveForms
    /\ on_disk \in SaveOriginals
    /\ panel_ok \in BOOLEAN
    /\ configured \in BOOLEAN
    /\ spc = "start"
    /\ calls = <<>>
    /\ remote = NoRemote
    /\ response = NoResponse
    /\ ValidateIdle /\ BatchIdle /\ SortIdle /\ DiffIdle /\ ParseIdle /\ ReportIdle

\* save_panel up to the creation of the GitHub client (lines 180-207)
SaveValidate ==
    /\ spc = "start"
    /\ LET text == Terminated(form)
           error_msg == validate_content(text)
           orig_set == Range(parse_genes(on_disk))
           new_set == Range(parse_genes(text))
       IN  IF ~panel_ok
           THEN spc' = "responded" /\ response' = [NoResponse EXCEPT !.kind = "not_found"]
           ELSE \E iter_added \in Enumerations(new_set \ orig_set),
                   iter_removed \in Enumerations(orig_set \ new_set) :
                    LET d == diff_genes(on_disk, text, iter_added, iter_removed)
                        kind == IF error_msg # NoMsg THEN "validation_error"
                                ELSE IF ~configured THEN "configuration_missing"
                                ELSE "none"
                    IN  /\ spc' = (IF kind = "none" THEN "submit" ELSE "responded")
                        /\ response' = [kind |-> kind, error |-> error_msg,
                                        added |-> d.added, removed |-> d.removed]
    /\ UNCHANGED <<form, on_disk, panel_ok, configured, calls, remote>>
    /\ UNCHANGED <<validateVars, batchVars, sortVars, diffVars, parseVars, reportVars>>

\* the next call of the try block (lines 208-218) and what follows from its outcome
SaveCall ==
    /\ spc = "submit"
    /\ LET n == Len(calls) + 1
           op == CallOrder[n]
       IN  \E outcome \in Outcomes, applied \in BOOLEAN :
             /\ outcome = "ok" => applied
             /\ outcome = "HTTPException" => ~applied
             /\ calls' = Append(calls, [op |-> op, outcome |-> outcome])
             /\ remote' = (IF applied THEN Effect(remote, op, Terminated(form)) ELSE remote)
             /\ response' = [response EXCEPT !.kind = ResponseTo(n, outcome)]
             /\ spc' = (IF ResponseTo(n, outcome) = "none" THEN "submit" ELSE "responded")
    /\ UNCHANGED <<form, on_disk, panel_ok, configured>>
    /\ UNCHANGED <<validateVars, batchVars, sortVars, diffVars, parseVars, reportVars>>

NextSave == SaveValidate \/ SaveCall

SpecSave == InitSave /\ [][NextSave]_vars

\* the calls made so far are the first calls of the fixed order
C14_Ordered == Len(calls) <= Len(CallOrder) /\ \A k \in 1..Len(calls) : calls[k].op = CallOrder[k]

\* no call is made for a panel that is missing or a content that fails validation
C14_Guarded == calls # <<>> => (panel_ok /\ validate_content(Terminated(form)) = NoMsg)

\* a call is made only after every earlier call succeeded
C14_StopsAtFailure == \A k \in 1..(Len(calls) - 1) : calls[k].outcome = "ok"

\* a failed call is answered by the form with "Submission failed", a redirect only
\* follows four successful calls
C14_FailureShown ==
    spc = "responded" =>
        /\ (calls # <<>> /\ calls[Len(calls)].outcome # "ok") =>
              response.kind = "submission_failed"
        /\ response.kind = "redirect" =>
              (Len(calls) = Len(CallOrder) /\ \A k \in 1..Len(calls) : calls[k].outcome = "ok")

\* a pull request exists only on a branch that holds the validated content
C14_PullRequestLast ==
    remote.pull_request =>
        /\ remote.branch /\ remote.committed
        /\ remote.content = Terminated(form)
        /\ validate_content(remote.content) = NoMsg

\* C14: save_panel makes no GitHub call unless validate_content accepted the
\* newline-terminated content; the calls are made in the order get_branch_sha,
\* create_branch, create_or_update_file, create_pull_request; once a call fails no
\* later call is made and the response is the form with "Submission failed", never
\* a redirect; a pull request is only created after the branch was created and the
\* validated content committed to it.
C14_SubmissionGuarded ==
    /\ C14_Guarded
    /\ C14_Ordered
    /\ C14_StopsAtFailure
    /\ C14_FailureShown
    /\ C14_PullRequestLast

\* what holds of save_panel whatever makes a call fail: the guard, the order, the
\* stop at the first failure and the pull request coming last
C14_CallsGuardedAndOrdered ==
    C14_Guarded /\ C14_Ordered /\ C14_StopsAtFailure /\ C14_PullRequestLast

====
